---- MODULE Spec2Model ----
(***************************************************************************)
(* Model of pkg/storaged/luksmeta-monitor-hack.py: the base64/JSON policy  *)
(* decoder, info(dev) scanning the output of "cryptsetup luksDump", and    *)
(* monitor(dev) emitting the state as JSON lines on udev events.           *)
(*                                                                         *)
(* Python values are represented as follows.                               *)
(*   dict            a function with string keys (a record); {} is <<>>    *)
(*   ordered dict    where the iteration order is observable (slots,       *)
(*                   subpins): a sequence of <<key, value>> pairs          *)
(*   None            the record None                                       *)
(*   raised exception  the record Exc(kind), propagated by every caller    *)
(*   str produced by json.dumps   the record json_dumps(v)                 *)
(***************************************************************************)
EXTENDS Integers, Sequences, FiniteSets, TLC

VARIABLES
    pc,          \* control point of the process
    phase,       \* who called info(): "priming", "watching" (monitor) or "direct" (info called on its own)
    err,         \* kind of the uncaught exception once pc = "crashed"
    path,        \* monitor: the resolved udev path of dev
    monOpen,     \* monitor: the "udevadm monitor" subprocess has been started
    monEnded,    \* the event subprocess has exited and closed its end of the pipe
    evline,      \* monitor: local variable line, the last value readline() returned
    stream,      \* lines written by udevadm monitor and not yet read
    nread,       \* history: number of lines read from the event stream so far
    old_infos,   \* monitor: the snapshot compared against
    returned,    \* the value returned by the last completed info() call
    out,         \* sys.stdout: the sequence of lines written and flushed
    dump,        \* info: lines of result.stdout not yet iterated over
    slots,       \* info: the slots dict, in insertion order
    version,     \* info: local variable version
    max_slots,   \* info: local variable max_slots
    in_luks2_slot_section,   \* info: local flag
    in_luks2_token_section,  \* info: local flag
    scanned,     \* history: the for loop of the current info() call has taken a line
    calls,       \* history: subprocess invocations made by the current info() call
    matches,     \* history: keyslot-line matches of the current info() call
    created,     \* history: slot indices in the order the current info() call first stored them
    header,      \* decoder called on its own: the protected header passed
    decoded      \* decoder called on its own: the value returned (or exception raised)

vars == <<pc, phase, err, path, monOpen, monEnded, evline, stream, nread, old_infos, returned, out,
          dump, slots, version, max_slots, in_luks2_slot_section,
          in_luks2_token_section, scanned, calls, matches, created, header, decoded>>

-----------------------------------------------------------------------------
(* Bounds of the explored inputs *)

MaxLines == 3       \* longest luksDump output given to a directly called info()
MaxEvents == 2      \* number of lines the monitor reads from the event stream
MaxChildren == 2    \* longest clevis.sss.jwe list given to the decoder

-----------------------------------------------------------------------------
(* Python values *)

None == [none |-> TRUE]

Exc(kind) == [exc |-> kind]

IsExc(v) == "exc" \in DOMAIN v

EmptyDict == <<>>

\* dict.get(key, default)
DictGet(d, key, default) == IF key \in DOMAIN d THEN d[key] ELSE default

\* truth value of a dict-or-None in "if clevis:"
Truthy(v) == DOMAIN v # {} /\ v # None

\* json.dumps: None becomes the text "null", anything else the text of the value
json_dumps(v) == IF v = None THEN [json |-> "null"] ELSE [json |-> "value", of |-> v]

\* the local variable line of monitor() before the first readline()
NoLine == "<unbound>"

\* b"", what readline() returns at end of file
EofLine == ""

\* int() applied to the decimal strings that occur
int(s) == CASE s = "0" -> 0 [] s = "1" -> 1 [] s = "2" -> 2 [] s = "9" -> 9

-----------------------------------------------------------------------------
(* Ordered dicts: sequences of <<key, value>> *)

Keys(d) == {d[k][1] : k \in 1..Len(d)}

PosOf(d, key) == CHOOSE k \in 1..Len(d) : d[k][1] = key

Lookup(d, key) == d[PosOf(d, key)][2]

\* a slip in d[key] = value: an existing key is taken out and put last
DictSet_moving_to_end(d, key, value) ==
    Append(SelectSeq(d, LAMBDA kv : kv[1] # key), <<key, value>>)

\* d[key] = value: an existing key keeps its position, a new key goes last
DictSet(d, key, value) ==
    IF key \in Keys(d)
    THEN [d EXCEPT ![PosOf(d, key)] = <<key, value>>]
    ELSE Append(d, <<key, value>>)

\* list(d.values())
Values(d) == [k \in 1..Len(d) |-> d[k][2]]

-----------------------------------------------------------------------------
(* Policy decoder *)

\* a slip in line 15: the outer "% 4" is left out
PadLen_single_mod(n) == 4 - (n % 4)

\* number of '=' appended to data of length n
PadLen(n) == (4 - (n % 4)) % 4

\* base64.urlsafe_b64decode(data + '=' * pad): the padded text must have a
\* length that is a multiple of 4, and 4k+1 data characters are never valid
b64_decode(data) ==
    IF (data.len + PadLen(data.len)) % 4 # 0 \/ data.len % 4 = 1
    THEN Exc("binascii.Error")
    ELSE data.bytes

\* bytes.decode("utf-8")
utf8_decode(bytes) == IF bytes.utf8 THEN bytes.text ELSE Exc("UnicodeDecodeError")

\* json.loads(text)
json_loads(text) == IF text.json THEN text.obj ELSE Exc("JSONDecodeError")

\* a slip in lines 32-35: an existing bucket is replaced instead of extended
AppendSubpin_replacing(subpins, subpin, payload) ==
    IF subpin \notin Keys(subpins)
    THEN Append(subpins, <<subpin, <<payload>> >>)
    ELSE DictSet(subpins, subpin, <<payload>>)

\* lines 32-35: append to the bucket of subpin, creating it if absent
AppendSubpin(subpins, subpin, payload) ==
    IF subpin \notin Keys(subpins)
    THEN Append(subpins, <<subpin, <<payload>> >>)
    ELSE DictSet(subpins, subpin, Append(Lookup(subpins, subpin), payload))

RECURSIVE get_clevis_config_from_protected_header(_)
RECURSIVE sss_loop(_, _)

\* jwe.split(".")[0] is the first segment of the compact form
get_clevis_config_from_jwe(jwe) == get_clevis_config_from_protected_header(jwe.segments[1])

\* lines 29-35: the for loop over jwes, yielding [subpins |-> ...]; an exception ends it
sss_loop(jwes, subpins) ==
    IF jwes = <<>> THEN [subpins |-> subpins]
    ELSE LET subconf == get_clevis_config_from_jwe(Head(jwes)) IN
         IF IsExc(subconf) THEN subconf
         ELSE IF subconf = None THEN Exc("TypeError")    \* None["pin"]
         ELSE LET subpin == subconf["pin"] IN
              IF subpin \notin DOMAIN subconf THEN Exc("KeyError")
              ELSE sss_loop(Tail(jwes), AppendSubpin(subpins, subpin, subconf[subpin]))

get_clevis_config_from_protected_header(protected_header) ==
    LET bytes == b64_decode(protected_header) IN
    IF IsExc(bytes) THEN bytes ELSE
    LET text == utf8_decode(bytes) IN
    IF IsExc(text) THEN text ELSE
    LET header_object == json_loads(text) IN
    IF IsExc(header_object) THEN header_object ELSE
    LET clevis == DictGet(header_object, "clevis", None) IN
    IF ~Truthy(clevis) THEN None
    ELSE LET pin == DictGet(clevis, "pin", "None") IN   \* a missing pin is written "None"
         IF pin = "tang" THEN clevis
         ELSE IF pin = "sss"
         THEN LET loop == sss_loop(clevis["sss"]["jwe"], <<>>) IN
              IF IsExc(loop) THEN loop
              ELSE [pin |-> "sss", sss |-> [t |-> clevis["sss"]["t"], pins |-> loop.subpins]]
         ELSE (pin :> EmptyDict) @@ ("pin" :> pin)      \* { "pin": pin, pin: { } }

-----------------------------------------------------------------------------
(* Inputs: protected headers and compact JWEs *)

\* a header of n base64 characters that decodes to the JSON object obj
Hdr(n, obj) == [len |-> n, bytes |-> [utf8 |-> TRUE, text |-> [json |-> TRUE, obj |-> obj]]]

\* a compact JWE: the protected header followed by further "."-separated segments
Jwe(h) == [segments |-> <<h, [len |-> 0]>>]

HBadB64 == [len |-> 5, bytes |-> [utf8 |-> FALSE]]
HBadUtf8 == [len |-> 6, bytes |-> [utf8 |-> FALSE]]
HBadJson == [len |-> 7, bytes |-> [utf8 |-> TRUE, text |-> [json |-> FALSE]]]
HNoKey == Hdr(8, [alg |-> "dir"])
HEmptyClevis == Hdr(10, [alg |-> "dir", clevis |-> EmptyDict])
HTang1 == Hdr(11, [clevis |-> [pin |-> "tang", tang |-> [url |-> "srv1"]]])
HTang2 == Hdr(12, [clevis |-> [pin |-> "tang", tang |-> [url |-> "srv2"]]])
HHttp == Hdr(14, [clevis |-> [pin |-> "http", http |-> [url |-> "srv3"]]])
HSss(t, jwes) == Hdr(15, [clevis |-> [pin |-> "sss", sss |-> [t |-> t, jwe |-> jwes]]])

SeqsUpTo(S, n) == UNION {[1..k -> S] : k \in 0..n}

LeafHeaders == {HBadB64, HBadUtf8, HBadJson, HNoKey, HEmptyClevis, HTang1, HTang2, HHttp}

SssHeaders == {HSss(t, jwes) : t \in {1, 2}, jwes \in SeqsUpTo({Jwe(h) : h \in LeafHeaders}, MaxChildren)}

NestedChildren == {HTang1, HNoKey, HSss(1, <<Jwe(HTang1), Jwe(HTang2)>>), HSss(1, <<Jwe(HHttp)>>)}

NestedHeaders == {HSss(2, jwes) : jwes \in SeqsUpTo({Jwe(h) : h \in NestedChildren}, MaxChildren)}

DecodeHeaders == LeafHeaders \cup SssHeaders \cup NestedHeaders

-----------------------------------------------------------------------------
(* Inputs: the lines of a luksDump output and the results of the other tools *)

\* an unindented line with a fixed text
Text(s) == [indent |-> FALSE, text |-> s]

\* "  <n>: luks2"
Luks2Line(n) == [indent |-> TRUE, text |-> "<n>: luks2", n |-> n]

\* "Key Slot <n>: ENABLED"
KeySlotLine(n) == [indent |-> FALSE, text |-> "Key Slot <n>: ENABLED", n |-> n]

\* "  <n>: clevis"
ClevisLine(n) == [indent |-> TRUE, text |-> "<n>: clevis", n |-> n]

\* an indented detail line such as "\tCipher: aes-xts-plain64"
DetailLine == [indent |-> TRUE, text |-> "Cipher: aes-xts-plain64"]

SlotStrs == {"0", "2", "9"}

TokenIds == {"0", "1"}

Lines ==
    {Text("Keyslots:"), Text("Tokens:"), Text("Digests:"), DetailLine}
    \cup {Luks2Line(n) : n \in SlotStrs}
    \cup {KeySlotLine(n) : n \in SlotStrs}
    \cup {ClevisLine(n) : n \in TokenIds}

\* stdout bytes that are the UTF-8 encoding of text
Utf8(text) == [utf8 |-> TRUE, text |-> text]

BadUtf8 == [utf8 |-> FALSE]

\* the text of a JSON document
JsonText(obj) == [json |-> TRUE, obj |-> obj]

BadJsonText == [json |-> FALSE]

LegacyHeaders == {HBadB64, HNoKey, HTang1}

\* outcomes of "luksmeta load": a failure, or exit status 0 with some stdout
LuksmetaResults ==
    {[rc |-> 1], [rc |-> 0, stdout |-> BadUtf8]}
    \cup {[rc |-> 0, stdout |-> Utf8(Jwe(h))] : h \in LegacyHeaders}

TokenHeaders == {HBadJson, HNoKey, HTang2}

TokenKeyslots == {<<"0">>, <<"2">>, <<"0", "9">>}

TokenObjects ==
    {[type |-> "luks2-keyring", keyslots |-> <<"0">>]}
    \cup {[type |-> "clevis", jwe |-> [protected |-> h], keyslots |-> ks] :
             h \in TokenHeaders, ks \in TokenKeyslots}

\* outcomes of "cryptsetup token export"
TokenResults ==
    {[rc |-> 1], [rc |-> 0, stdout |-> Utf8(BadJsonText)]}
    \cup {[rc |-> 0, stdout |-> Utf8(JsonText(obj))] : obj \in TokenObjects}

\* the luksDump outputs a monitored device goes through
MonDumps ==
    { <<>>,
      <<KeySlotLine("0")>>,
      <<Text("Keyslots:"), Luks2Line("0"), Text("Tokens:"), ClevisLine("0")>> }

DumpsFor(ph) == IF ph = "direct" THEN SeqsUpTo(Lines, MaxLines) ELSE MonDumps

-----------------------------------------------------------------------------
(* info(dev) *)

DefaultState == [version |-> 1, slots |-> <<>>, max_slots |-> 8]

\* re.fullmatch(b"  ([0-9]+): luks2", line)
MatchLuks2(line) == line.indent /\ line.text = "<n>: luks2"

\* re.fullmatch(b"Key Slot ([0-9]+): ENABLED", line)
MatchKeySlot(line) == ~line.indent /\ line.text = "Key Slot <n>: ENABLED"

\* re.fullmatch(b"  ([0-9]+): clevis", line)
MatchClevis(line) == line.indent /\ line.text = "<n>: clevis"

\* lines 58-60: version after the header comparisons of a line
HeaderVersion(line, ver) == IF line = Text("Keyslots:") THEN 2 ELSE ver

\* a slip in lines 58-61: max_slots is left at its initial value
HeaderMaxSlots_unchanged(line, max) == max

\* lines 58-61: max_slots after the header comparisons of a line
HeaderMaxSlots(line, max) == IF line = Text("Keyslots:") THEN 32 ELSE max

\* lines 55-59: in_luks2_slot_section after the header comparisons of a line
SlotSectionAfter(line, flag) == line = Text("Keyslots:") \/ (line.indent /\ flag)

\* a slip in lines 55-57: the token flag is not cleared on an unindented line
TokenSectionAfter_not_cleared(line, flag) ==
    (line # Text("Keyslots:") /\ line = Text("Tokens:")) \/ flag

\* lines 55-63: in_luks2_token_section after the header comparisons of a line
TokenSectionAfter(line, flag) ==
    (line # Text("Keyslots:") /\ line = Text("Tokens:")) \/ (line.indent /\ flag)

\* a slip in line 72: luksmeta is consulted whatever the version
NeedsLuksmeta_always(ver) == TRUE

\* line 72: luksmeta is run for a matched keyslot line only while version is 1
NeedsLuksmeta(ver) == ver = 1

\* lines 71-79: the entry of a matched keyslot line, given the outcome of luksmeta
KeyslotEntry(slot, ver, luksmeta) ==
    LET entry == [Index |-> [v |-> slot]] IN
    IF NeedsLuksmeta(ver) /\ luksmeta.rc = 0
    THEN LET text == utf8_decode(luksmeta.stdout) IN
         IF IsExc(text) THEN text ELSE
         LET config == get_clevis_config_from_jwe(text) IN
         IF IsExc(config) THEN config
         ELSE [Index |-> [v |-> slot], ClevisConfig |-> [v |-> json_dumps(config)]]
    ELSE entry

\* a slip in lines 80-81: the entry is stored whether or not the index is present
StoreKeyslot_overwriting(d, slot, entry) == DictSet(d, slot, entry)

\* lines 80-81
StoreKeyslot(d, slot, entry) == IF slot \notin Keys(d) THEN DictSet(d, slot, entry) ELSE d

\* a slip in lines 92-95: an index that already has an entry is left alone
RECURSIVE StoreToken_keeping_existing(_, _, _)
StoreToken_keeping_existing(d, keyslots, config) ==
    IF keyslots = <<>> THEN d
    ELSE LET slot == int(Head(keyslots)) IN
         StoreToken_keeping_existing(
             IF slot \in Keys(d) THEN d
             ELSE DictSet(d, slot, [Index |-> [v |-> slot], ClevisConfig |-> [v |-> config]]),
             Tail(keyslots), config)

\* lines 92-95: the for loop over the keyslots of a token
RECURSIVE StoreToken(_, _, _)
StoreToken(d, keyslots, config) ==
    IF keyslots = <<>> THEN d
    ELSE LET slot == int(Head(keyslots)) IN
         StoreToken(DictSet(d, slot, [Index |-> [v |-> slot], ClevisConfig |-> [v |-> config]]),
                    Tail(keyslots), config)

\* lines 88-95: the slots dict after a token export with outcome token, as
\* [slots |-> ...], or the exception raised
TokenStep(d, token) ==
    IF token.rc # 0 THEN [slots |-> d] ELSE
    LET text == utf8_decode(token.stdout) IN
    IF IsExc(text) THEN text ELSE
    LET token_object == json_loads(text) IN
    IF IsExc(token_object) THEN token_object ELSE
    IF DictGet(token_object, "type", "None") # "clevis" THEN [slots |-> d] ELSE
    IF "jwe" \notin DOMAIN token_object THEN Exc("KeyError") ELSE
    LET policy == get_clevis_config_from_protected_header(token_object["jwe"]["protected"]) IN
    IF IsExc(policy) THEN policy
    ELSE [slots |-> StoreToken(d, DictGet(token_object, "keyslots", <<>>), json_dumps(policy))]

\* history: the indices first stored, in order, after indices are stored in turn
RECURSIVE NoteCreated(_, _)
NoteCreated(order, indices) ==
    IF indices = <<>> THEN order
    ELSE NoteCreated(IF \E k \in 1..Len(order) : order[k] = Head(indices)
                     THEN order
                     ELSE Append(order, Head(indices)),
                     Tail(indices))

\* history: the indices a token export with outcome token stores, in order
TokenIndices(token) ==
    IF token.rc # 0 \/ ~token.stdout.utf8 THEN <<>>
    ELSE IF ~token.stdout.text.json THEN <<>>
    ELSE LET token_object == token.stdout.text.obj IN
         IF DictGet(token_object, "type", "None") # "clevis" THEN <<>>
         ELSE LET keyslots == DictGet(token_object, "keyslots", <<>>) IN
              [k \in 1..Len(keyslots) |-> int(keyslots[k])]

\* a slip in lines 49-50: the exit status of luksDump is not looked at
InfoBegin_ignoring_returncode ==
    /\ pc = "info"
    /\ \E rc \in {0, 1}, stdout \in DumpsFor(phase) :
          /\ calls' = << [tool |-> "luksDump", rc |-> rc] >>
          /\ dump' = stdout
          /\ returned' = returned
          /\ pc' = "scan"
    /\ slots' = <<>>
    /\ version' = 1
    /\ max_slots' = 8
    /\ in_luks2_slot_section' = FALSE
    /\ in_luks2_token_section' = FALSE
    /\ scanned' = FALSE
    /\ matches' = <<>>
    /\ created' = <<>>
    /\ UNCHANGED <<phase, err, path, monOpen, monEnded, evline, stream, nread, old_infos, out,
                   header, decoded>>

\* lines 44-53: the locals are initialised and luksDump is run; a non-zero
\* exit status returns the default state at once
InfoBegin ==
    /\ pc = "info"
    /\ \E rc \in {0, 1}, stdout \in DumpsFor(phase) :
          /\ calls' = << [tool |-> "luksDump", rc |-> rc] >>
          /\ dump' = stdout
          /\ IF rc # 0
             THEN /\ returned' = DefaultState
                  /\ pc' = "ret"
             ELSE /\ returned' = returned
                  /\ pc' = "scan"
    /\ slots' = <<>>
    /\ version' = 1
    /\ max_slots' = 8
    /\ in_luks2_slot_section' = FALSE
    /\ in_luks2_token_section' = FALSE
    /\ scanned' = FALSE
    /\ matches' = <<>>
    /\ created' = <<>>
    /\ UNCHANGED <<phase, err, path, monOpen, monEnded, evline, stream, nread, old_infos, out,
                   header, decoded>>

\* lines 54-95: one iteration of the for loop
ScanLine ==
    /\ pc = "scan"
    /\ dump # <<>>
    /\ LET line == Head(dump)
           slot_section == SlotSectionAfter(line, in_luks2_slot_section)
           token_section == TokenSectionAfter(line, in_luks2_token_section)
           ver == HeaderVersion(line, version)
           match == IF slot_section THEN MatchLuks2(line) ELSE MatchKeySlot(line)
           tmatch == token_section /\ MatchClevis(line)
       IN
       \E luksmeta \in (IF match /\ NeedsLuksmeta(ver) THEN LuksmetaResults ELSE {[rc |-> 1]}),
          token \in (IF tmatch THEN TokenResults ELSE {[rc |-> 1]}) :
          LET slot == int(line.n)
              entry == IF match THEN KeyslotEntry(slot, ver, luksmeta) ELSE None
              slots1 == IF match /\ ~IsExc(entry) THEN StoreKeyslot(slots, slot, entry) ELSE slots
              calls1 == IF match /\ NeedsLuksmeta(ver)
                        THEN Append(calls, [tool |-> "luksmeta", arg |-> line.n, res |-> luksmeta])
                        ELSE calls
              tstep == IF tmatch /\ ~IsExc(entry) THEN TokenStep(slots1, token) ELSE [slots |-> slots1]
              calls2 == IF tmatch /\ ~IsExc(entry)
                        THEN Append(calls1, [tool |-> "token export", arg |-> line.n, res |-> token])
                        ELSE calls1
              raised == IF IsExc(entry) THEN entry ELSE IF IsExc(tstep) THEN tstep ELSE None
              created1 == IF match /\ ~IsExc(entry) THEN NoteCreated(created, <<slot>>) ELSE created
          IN /\ in_luks2_slot_section' = slot_section
             /\ in_luks2_token_section' = token_section
             /\ version' = ver
             /\ max_slots' = HeaderMaxSlots(line, max_slots)
             /\ calls' = calls2
             /\ matches' = IF match /\ ~IsExc(entry)
                           THEN Append(matches, [slot |-> slot, entry |-> entry, ver |-> ver,
                                                 legacy |-> ~slot_section])
                           ELSE matches
             /\ created' = IF tmatch /\ ~IsExc(entry) /\ ~IsExc(tstep)
                           THEN NoteCreated(created1, TokenIndices(token))
                           ELSE created1
             /\ slots' = IF IsExc(tstep) THEN slots1 ELSE tstep.slots
             /\ IF raised = None
                THEN /\ pc' = "scan"
                     /\ err' = err
                ELSE /\ pc' = "crashed"
                     /\ err' = raised.exc
    /\ dump' = Tail(dump)
    /\ scanned' = TRUE
    /\ UNCHANGED <<phase, path, monOpen, monEnded, evline, stream, nread, old_infos, returned,
                   out, header, decoded>>

\* line 97
InfoReturn ==
    /\ pc = "scan"
    /\ dump = <<>>
    /\ returned' = [version |-> version, slots |-> Values(slots), max_slots |-> max_slots]
    /\ pc' = "ret"
    /\ UNCHANGED <<phase, err, path, monOpen, monEnded, evline, stream, nread, old_infos, out, dump, slots,
                   version, max_slots, in_luks2_slot_section, in_luks2_token_section,
                   scanned, calls, matches, created, header, decoded>>

-----------------------------------------------------------------------------
(* monitor(dev) *)

DevPath == "/devices/pci0000:00/block/sda"

\* lines written by "udevadm monitor -u -s block"
EventLines ==
    { "UDEV  [1.0] change   /devices/pci0000:00/block/sda (block)",
      "UDEV  [1.0] change   /devices/pci0000:00/block/sda/sda1 (block)",
      "UDEV  [1.0] change   /devices/pci0000:00/block/sdb (block)" }

\* "p in line" for the byte strings that occur
Contains(line, p) ==
    /\ p = DevPath
    /\ line \in { "UDEV  [1.0] change   /devices/pci0000:00/block/sda (block)",
                  "UDEV  [1.0] change   /devices/pci0000:00/block/sda/sda1 (block)" }

\* lines 100-102: the path is resolved (check_output raises on a failing
\* udevadm) and the event subprocess is started
Start ==
    /\ pc = "start"
    /\ \E rc \in {0, 1} :
          IF rc # 0
          THEN /\ pc' = "crashed"
               /\ err' = "CalledProcessError"
               /\ UNCHANGED <<path, monOpen>>
          ELSE /\ path' = DevPath
               /\ monOpen' = TRUE
               /\ pc' = "info"
               /\ err' = err
    /\ UNCHANGED <<phase, monEnded, evline, stream, nread, old_infos, returned, out, dump,
                   slots, version, max_slots, in_luks2_slot_section, in_luks2_token_section,
                   scanned, calls, matches, created, header, decoded>>

\* the event subprocess writes a line to its stdout pipe
Deliver ==
    /\ monOpen
    /\ ~monEnded
    /\ pc # "crashed"
    /\ nread + Len(stream) < MaxEvents
    /\ \E line \in EventLines : stream' = Append(stream, line)
    /\ UNCHANGED <<pc, phase, err, path, monOpen, monEnded, evline, nread, old_infos, returned, out, dump,
                   slots, version, max_slots, in_luks2_slot_section,
                   in_luks2_token_section, scanned, calls, matches, created, header, decoded>>

\* a slip in lines 104-106: the default state is not worth a line
PrimeEmit_skipping_default ==
    /\ pc = "ret"
    /\ phase = "priming"
    /\ old_infos' = returned
    /\ out' = IF returned = DefaultState THEN out ELSE Append(out, json_dumps(returned))
    /\ pc' = "watching"
    /\ phase' = "watching"
    /\ UNCHANGED <<err, path, monOpen, monEnded, evline, stream, nread, returned, dump, slots, version,
                   max_slots, in_luks2_slot_section, in_luks2_token_section, scanned,
                   calls, matches, created, header, decoded>>

\* lines 104-106: the first state is written and flushed
PrimeEmit ==
    /\ pc = "ret"
    /\ phase = "priming"
    /\ old_infos' = returned
    /\ out' = Append(out, json_dumps(returned))
    /\ pc' = "watching"
    /\ phase' = "watching"
    /\ UNCHANGED <<err, path, monOpen, monEnded, evline, stream, nread, returned, dump, slots, version,
                   max_slots, in_luks2_slot_section, in_luks2_token_section, scanned,
                   calls, matches, created, header, decoded>>

\* the event subprocess exits: its end of the pipe is closed, what it wrote
\* stays readable
MonExit ==
    /\ monOpen
    /\ ~monEnded
    /\ pc # "crashed"
    /\ monEnded' = TRUE
    /\ UNCHANGED <<pc, phase, err, path, monOpen, evline, stream, nread, old_infos, returned,
                   out, dump, slots, version, max_slots, in_luks2_slot_section,
                   in_luks2_token_section, scanned, calls, matches, created, header, decoded>>

\* a slip in line 109: every line read starts info(dev)
ReadEvent_unfiltered ==
    /\ pc = "watching"
    /\ stream # <<>> \/ monEnded
    /\ evline' = IF stream # <<>> THEN Head(stream) ELSE EofLine
    /\ pc' = "info"
    /\ stream' = IF stream # <<>> THEN Tail(stream) ELSE stream
    /\ nread' = IF stream # <<>> THEN nread + 1 ELSE nread
    /\ UNCHANGED <<phase, err, path, monOpen, monEnded, old_infos, returned, out, dump, slots,
                   version, max_slots, in_luks2_slot_section, in_luks2_token_section,
                   scanned, calls, matches, created, header, decoded>>

\* lines 108-109: readline blocks until a line is there or the pipe is at end
\* of file, where it returns b""; a line without the path is dropped, a line
\* with it starts info(dev)
ReadEvent ==
    /\ pc = "watching"
    /\ stream # <<>> \/ monEnded
    /\ LET line == IF stream # <<>> THEN Head(stream) ELSE EofLine IN
       /\ evline' = line
       /\ pc' = IF Contains(line, path) THEN "info" ELSE "watching"
    /\ stream' = IF stream # <<>> THEN Tail(stream) ELSE stream
    /\ nread' = IF stream # <<>> THEN nread + 1 ELSE nread
    /\ UNCHANGED <<phase, err, path, monOpen, monEnded, old_infos, returned, out, dump, slots,
                   version, max_slots, in_luks2_slot_section, in_luks2_token_section,
                   scanned, calls, matches, created, header, decoded>>

\* a slip in lines 110-114: line 114 is missing, the state written is not kept
Compare_keeping_old_infos ==
    /\ pc = "ret"
    /\ phase = "watching"
    /\ out' = IF returned # old_infos THEN Append(out, json_dumps(returned)) ELSE out
    /\ pc' = "watching"
    /\ UNCHANGED <<phase, err, path, monOpen, monEnded, evline, stream, nread, old_infos,
                   returned, dump, slots, version, max_slots, in_luks2_slot_section,
                   in_luks2_token_section, scanned, calls, matches, created, header, decoded>>

\* a slip in lines 110-114: the comparison with old_infos is left out
Compare_unconditional ==
    /\ pc = "ret"
    /\ phase = "watching"
    /\ out' = Append(out, json_dumps(returned))
    /\ old_infos' = returned
    /\ pc' = "watching"
    /\ UNCHANGED <<phase, err, path, monOpen, monEnded, evline, stream, nread, returned, dump, slots, version,
                   max_slots, in_luks2_slot_section, in_luks2_token_section, scanned,
                   calls, matches, created, header, decoded>>

\* lines 110-114: the rebuilt state is written only if it differs from old_infos
Compare ==
    /\ pc = "ret"
    /\ phase = "watching"
    /\ LET new_infos == returned IN
       IF new_infos # old_infos
       THEN /\ out' = Append(out, json_dumps(new_infos))
            /\ old_infos' = new_infos
       ELSE UNCHANGED <<out, old_infos>>
    /\ pc' = "watching"
    /\ UNCHANGED <<phase, err, path, monOpen, monEnded, evline, stream, nread, returned, dump, slots, version,
                   max_slots, in_luks2_slot_section, in_luks2_token_section, scanned,
                   calls, matches, created, header, decoded>>

-----------------------------------------------------------------------------
(* get_clevis_config_from_protected_header called once on its own *)

Idle ==
    /\ phase = "none" /\ err = "none" /\ path = "" /\ monOpen = FALSE /\ monEnded = FALSE /\ evline = NoLine
    /\ stream = <<>> /\ nread = 0 /\ old_infos = None /\ returned = None
    /\ out = <<>> /\ dump = <<>> /\ slots = <<>> /\ version = 1 /\ max_slots = 8
    /\ in_luks2_slot_section = FALSE /\ in_luks2_token_section = FALSE
    /\ scanned = FALSE /\ calls = <<>> /\ matches = <<>> /\ created = <<>>

InitDecode ==
    /\ Idle
    /\ pc = "decode"
    /\ header \in DecodeHeaders
    /\ decoded = None

Decode ==
    /\ pc = "decode"
    /\ decoded' = get_clevis_config_from_protected_header(header)
    /\ pc' = "decoded"
    /\ UNCHANGED <<phase, err, path, monOpen, monEnded, evline, stream, nread, old_infos, returned, out,
                   dump, slots, version, max_slots, in_luks2_slot_section,
                   in_luks2_token_section, scanned, calls, matches, created, header>>

NextDecode == Decode

SpecDecode == InitDecode /\ [][NextDecode]_vars

-----------------------------------------------------------------------------
(* The padding step of b64_decode on texts of every length up to MaxLen *)

MaxLen == 63

InitPad ==
    /\ Idle
    /\ pc = "pad"
    /\ header \in {[len |-> n] : n \in 0..MaxLen}
    /\ decoded = None

\* lines 15-16: missing_padding is computed and that many '=' are appended
Pad ==
    /\ pc = "pad"
    /\ LET missing_padding == PadLen(header.len) IN
       decoded' = [missing_padding |-> missing_padding, len |-> header.len + missing_padding]
    /\ pc' = "padded"
    /\ UNCHANGED <<phase, err, path, monOpen, monEnded, evline, stream, nread, old_infos,
                   returned, out, dump, slots, version, max_slots, in_luks2_slot_section,
                   in_luks2_token_section, scanned, calls, matches, created, header>>

NextPad == Pad

SpecPad == InitPad /\ [][NextPad]_vars

-----------------------------------------------------------------------------
(* info(dev) called once on its own *)

InitInfo ==
    /\ pc = "info" /\ phase = "direct" /\ err = "none" /\ path = "" /\ monOpen = FALSE /\ monEnded = FALSE /\ evline = NoLine
    /\ stream = <<>> /\ nread = 0 /\ old_infos = None /\ returned = None
    /\ out = <<>> /\ dump = <<>> /\ slots = <<>> /\ version = 1 /\ max_slots = 8
    /\ in_luks2_slot_section = FALSE /\ in_luks2_token_section = FALSE
    /\ scanned = FALSE /\ calls = <<>> /\ matches = <<>> /\ created = <<>>
    /\ header = None /\ decoded = None

NextInfo == InfoBegin \/ ScanLine \/ InfoReturn

SpecInfo == InitInfo /\ [][NextInfo]_vars

-----------------------------------------------------------------------------
(* Properties of the decoder *)

RECURSIVE SumLen(_)
SumLen(d) == IF d = <<>> THEN 0 ELSE Len(Head(d)[2]) + SumLen(Tail(d))

\* the clevis object of a header that decodes to JSON, None otherwise
ClevisOf(h) ==
    IF IsExc(b64_decode(h)) \/ ~h.bytes.utf8 THEN None
    ELSE IF ~h.bytes.text.json THEN None
    ELSE DictGet(h.bytes.text.obj, "clevis", None)

IsSssHeader(h) == Truthy(ClevisOf(h)) /\ DictGet(ClevisOf(h), "pin", "None") = "sss"

\* the payloads of the children whose pin is p, in the children's order
PayloadsOf(kids, p) ==
    LET HasPin(c) == c["pin"] = p
        sel == SelectSeq(kids, HasPin)
    IN [k \in 1..Len(sel) |-> sel[k][p]]

\* C8: whenever decoding an sss header returns a descriptor, its pins mapping has
\* one bucket per pin name occurring among the children, each bucket is exactly
\* the sequence of payloads of the children with that pin in their original
\* order, the bucket lengths add up to the number of children and t is the
\* header's threshold; the children (sss children included) are the values the
\* decoder itself returns for them.
SssGroupsChildrenByPin ==
    (pc = "decoded" /\ IsSssHeader(header) /\ ~IsExc(decoded)) =>
        LET sss == ClevisOf(header)["sss"]
            kids == [k \in 1..Len(sss.jwe) |-> get_clevis_config_from_jwe(sss.jwe[k])]
            pins == decoded.sss.pins
        IN /\ decoded.pin = "sss"
           /\ DOMAIN decoded = {"pin", "sss"}
           /\ decoded.sss.t = sss.t
           /\ Keys(pins) = {kids[k]["pin"] : k \in 1..Len(kids)}
           /\ Cardinality(Keys(pins)) = Len(pins)
           /\ \A p \in Keys(pins) : Lookup(pins, p) = PayloadsOf(kids, p)
           /\ SumLen(pins) = Len(sss.jwe)

\* two tang children with t = 2 decode to one tang bucket holding both payloads
SssTwoTangDecoded ==
    /\ pc = "decoded"
    /\ header = HSss(2, <<Jwe(HTang1), Jwe(HTang2)>>)
    /\ decoded = [pin |-> "sss",
                  sss |-> [t |-> 2, pins |-> << <<"tang", <<[url |-> "srv1"], [url |-> "srv2"]>> >> >>]]

-----------------------------------------------------------------------------
(* The whole program: monitor(sys.argv[1]) *)

Init ==
    /\ pc = "start" /\ phase = "priming" /\ err = "none" /\ path = "" /\ monOpen = FALSE /\ monEnded = FALSE /\ evline = NoLine
    /\ stream = <<>> /\ nread = 0 /\ old_infos = None /\ returned = None
    /\ out = <<>> /\ dump = <<>> /\ slots = <<>> /\ version = 1 /\ max_slots = 8
    /\ in_luks2_slot_section = FALSE /\ in_luks2_token_section = FALSE
    /\ scanned = FALSE /\ calls = <<>> /\ matches = <<>> /\ created = <<>>
    /\ header = None /\ decoded = None

Next ==
    \/ Start
    \/ Deliver
    \/ MonExit
    \/ InfoBegin
    \/ ScanLine
    \/ InfoReturn
    \/ PrimeEmit
    \/ ReadEvent
    \/ Compare

Spec == Init /\ [][Next]_vars

-----------------------------------------------------------------------------
(* Properties of the monitor *)

\* the state carried by the most recently written line
LastEmitted == out[Len(out)].of

\* C1: once the startup line is out, a step writes a line if and only if it is
\* the completion of a rebuild (started by a matching event) whose state
\* differs from the state of the most recently written line, and the line
\* written is that state; hence no two consecutive lines of the output are
\* equal and a rebuild equal to the last written state writes nothing.
EmitsExactlyOnChange ==
    /\ [][ /\ (Len(out) >= 1 /\ out' # out) =>
                /\ pc = "ret" /\ phase = "watching"
                /\ returned # LastEmitted
                /\ out' = Append(out, json_dumps(returned))
           /\ (pc = "ret" /\ phase = "watching" /\ pc' # pc) =>
                /\ (returned # LastEmitted => out' = Append(out, json_dumps(returned)))
                /\ (returned = LastEmitted => out' = out)
         ]_vars
    /\ [](\A k \in 1..(Len(out) - 1) : out[k] # out[k + 1])

\* a rebuild that wrote a second line has been followed by a rebuild equal to it
SecondRebuildIdentical ==
    /\ pc = "ret" /\ phase = "watching"
    /\ Len(out) = 2
    /\ nread = 2
    /\ returned = LastEmitted

\* C2: while priming nothing has been written and no event line has been read;
\* priming ends by writing the state info() returned, whatever it is, as the
\* first line and entering watching; after that the monitor never primes
\* again and the first line stays the only line written by priming.
PrimingEmitsOnce ==
    [][ /\ (phase = "priming" => out = <<>> /\ nread = 0)
        /\ (phase = "priming" /\ out' # out) => pc = "ret"
        /\ (pc = "ret" /\ phase = "priming" /\ pc' # pc) =>
              /\ out' = <<json_dumps(returned)>>
              /\ nread' = 0
              /\ pc' = "watching" /\ phase' = "watching"
        /\ (phase = "watching") =>
              /\ phase' = "watching"
              /\ Len(out') >= 1 /\ out'[1] = out[1]
      ]_vars

\* the default state has been written as the startup line
DefaultStatePrimed ==
    /\ pc = "watching"
    /\ out = <<json_dumps(DefaultState)>>
    /\ nread = 0

-----------------------------------------------------------------------------
(* Properties of info(dev) *)

\* the slots dict rebuilt from a returned slots list
EntryOf(state, s) == CHOOSE e \in {state.slots[k] : k \in 1..Len(state.slots)} : e.Index.v = s

Indices(state) == {state.slots[k].Index.v : k \in 1..Len(state.slots)}

\* C3: once luksDump has exited non-zero, info() has returned exactly
\* {version: 1, slots: [], max_slots: 8}; no line of the output was iterated
\* over and no other tool was run.
FailedDumpReturnsDefault ==
    (calls # <<>> /\ calls[1].rc # 0) =>
        /\ pc = "ret"
        /\ returned = [version |-> 1, slots |-> <<>>, max_slots |-> 8]
        /\ ~scanned
        /\ Len(calls) = 1
        /\ slots = <<>>

\* luksDump failed although it printed keyslot lines
FailedDumpWithOutput ==
    /\ pc = "ret"
    /\ calls[1].rc # 0
    /\ dump = <<Text("Keyslots:"), Luks2Line("0"), Text("Tokens:")>>
    /\ returned = DefaultState

\* C7: throughout a scan, and in the state returned, (version, max_slots) is
\* (1, 8) or (2, 32); the pair changes only from (1, 8) to (2, 32).
VersionFixesMaxSlots ==
    /\ [](<<version, max_slots>> \in {<<1, 8>>, <<2, 32>>})
    /\ [](pc = "ret" => <<returned.version, returned.max_slots>> = <<version, max_slots>>)
    /\ [][ (version' # version \/ max_slots' # max_slots) =>
               /\ <<version, max_slots>> = <<1, 8>>
               /\ <<version', max_slots'>> = <<2, 32>>
         ]_vars

\* a version 2 state with a slot has been returned
Version2Returned ==
    /\ pc = "ret"
    /\ returned.version = 2
    /\ returned.max_slots = 32
    /\ returned.slots # <<>>

\* a recorded call is a token export that info() applied: exit status 0, a JSON
\* document, type "clevis"
IsAppliedToken(c) ==
    /\ c.tool = "token export"
    /\ c.res.rc = 0
    /\ c.res.stdout.utf8
    /\ c.res.stdout.text.json
    /\ DictGet(c.res.stdout.text.obj, "type", "None") = "clevis"

TokenObject(c) == c.res.stdout.text.obj

ListsSlot(c, s) ==
    LET keyslots == DictGet(TokenObject(c), "keyslots", <<>>) IN
    \E k \in 1..Len(keyslots) : int(keyslots[k]) = s

\* position in calls of the last applied token that lists slot s, 0 if none
LastTokenFor(s) ==
    LET K == {k \in 1..Len(calls) : IsAppliedToken(calls[k]) /\ ListsSlot(calls[k], s)} IN
    IF K = {} THEN 0 ELSE CHOOSE k \in K : \A j \in K : j <= k

\* position in matches of the first keyslot line for slot s, 0 if none
FirstMatchFor(s) ==
    LET K == {k \in 1..Len(matches) : matches[k].slot = s} IN
    IF K = {} THEN 0 ELSE CHOOSE k \in K : \A j \in K : k <= j

SlotNumbers == {int(n) : n \in SlotStrs}

\* C6: in the state info() returns, a slot listed in the keyslots of an applied
\* clevis token carries the policy decoded from the last such token of the
\* dump, whatever entry a keyslot line had recorded for it; every other slot
\* has exactly the entry its first keyslot line gave it, and there is no
\* entry for a slot that neither a keyslot line nor a token named.
TokenPolicyOverwritesSlot ==
    pc = "ret" =>
        /\ Cardinality(Indices(returned)) = Len(returned.slots)
        /\ \A s \in SlotNumbers \cup Indices(returned) :
              LET t == LastTokenFor(s)
                  m == FirstMatchFor(s)
              IN IF t # 0
                 THEN /\ s \in Indices(returned)
                      /\ EntryOf(returned, s) =
                            [Index |-> [v |-> s],
                             ClevisConfig |-> [v |-> json_dumps(
                                 get_clevis_config_from_protected_header(
                                     TokenObject(calls[t])["jwe"]["protected"]))]]
                 ELSE IF m # 0
                 THEN /\ s \in Indices(returned)
                      /\ EntryOf(returned, s) = matches[m].entry
                 ELSE s \notin Indices(returned)

\* a slot whose keyslot line had attached a legacy policy was returned with a
\* token's policy instead
LegacyPolicyOverwritten ==
    /\ pc = "ret"
    /\ \E k \in 1..Len(matches) :
          /\ "ClevisConfig" \in DOMAIN matches[k].entry
          /\ LastTokenFor(matches[k].slot) # 0
          /\ EntryOf(returned, matches[k].slot) # matches[k].entry

LastCall == calls[Len(calls)]

\* the last tool run exited with status 0 and printed what info() parses:
\* UTF-8 text, and for a token export a JSON document
ToolOutputParsable(c) ==
    /\ c.tool \in {"luksmeta", "token export"}
    /\ c.res.rc = 0
    /\ c.res.stdout.utf8
    /\ (c.tool = "token export" => c.res.stdout.text.json)

\* C4: a policy token that fails to decode (bad base64, bad UTF-8 or bad JSON in
\* the header of a legacy JWE or of a token) never aborts the scan: info() is
\* never ended by an exception raised while decoding the well-formed output of
\* a tool.
DecodeFailureNeverAborts ==
    ~(pc = "crashed" /\ ToolOutputParsable(LastCall))

\* C5: a failing invocation of luksmeta or of the token export (non-zero exit,
\* or exit 0 with output that cannot be parsed) never aborts the scan.
ToolFailureNeverAborts ==
    ~(pc = "crashed" /\ ~ToolOutputParsable(LastCall))

\* C9: a slot whose policy the decoder returned as absent is returned without
\* ClevisConfig, like a slot that had no policy source.
AbsentPolicyHasNoClevisConfig ==
    pc = "ret" =>
        \A k \in 1..Len(returned.slots) :
            "ClevisConfig" \in DOMAIN returned.slots[k] =>
                returned.slots[k].ClevisConfig.v # json_dumps(None)

\* C10: every slot returned has 0 <= index < max_slots.
IndexBelowMaxSlots ==
    pc = "ret" =>
        \A k \in 1..Len(returned.slots) :
            /\ 0 <= returned.slots[k].Index.v
            /\ returned.slots[k].Index.v < returned.max_slots

----------------------------------------------------------------------------
\* The monitor under scheduling: the process is one thread that runs whenever
\* it can take a step, and every tool it waits for terminates, so each of its
\* own steps is taken once it stays enabled.  What udev delivers and when the
\* event subprocess ends is left to the environment.
SpecLive ==
    /\ Init
    /\ [][Next]_vars
    /\ WF_vars(Start)
    /\ WF_vars(InfoBegin)
    /\ WF_vars(ScanLine)
    /\ WF_vars(InfoReturn)
    /\ WF_vars(PrimeEmit)
    /\ WF_vars(ReadEvent)
    /\ WF_vars(Compare)

\* C11: once the event subprocess has ended, so that its stream reaches end of
\* file, the monitor eventually terminates with a non-zero status (the only
\* such end the program has is an uncaught exception) instead of looping in
\* watching.
StreamEndIsFatal == monEnded ~> (pc = "crashed")

\* the entry returned for slot s is the one a keyslot line built from the
\* output of "luksmeta load"
LegacyIsSource(s) ==
    /\ LastTokenFor(s) = 0
    /\ FirstMatchFor(s) # 0
    /\ "ClevisConfig" \in DOMAIN matches[FirstMatchFor(s)].entry

\* C12 as stated: in a state returned with version 2 no slot has a
\* ClevisConfig that came from the legacy loader, whatever the order of the
\* lines of the dump.
LegacyNeverSourceInVersion2 ==
    (pc = "ret" /\ returned.version = 2) =>
        \A s \in Indices(returned) : ~LegacyIsSource(s)

LuksmetaCalls == {k \in 1..Len(calls) : calls[k].tool = "luksmeta"}

\* C12 amended: the legacy loader is run only for a keyslot line met while
\* version is still 1, that is before the first "Keyslots:" line: a keyslot
\* line matched at version 2 records the bare index and runs no tool, and in
\* a state returned with version 2 a legacy ClevisConfig belongs to a
\* "Key Slot N: ENABLED" line that preceded the first "Keyslots:" line.
LegacyOnlyBeforeKeyslots ==
    /\ \A k \in 1..Len(matches) :
          matches[k].ver = 2 => matches[k].entry = [Index |-> [v |-> matches[k].slot]]
    /\ Cardinality(LuksmetaCalls) =
          Cardinality({k \in 1..Len(matches) : matches[k].ver = 1})
          + (IF pc = "crashed" /\ LastCall.tool = "luksmeta" THEN 1 ELSE 0)
    /\ (pc = "ret" /\ returned.version = 2) =>
          \A s \in Indices(returned) :
             LegacyIsSource(s) =>
                /\ matches[FirstMatchFor(s)].ver = 1
                /\ matches[FirstMatchFor(s)].legacy

\* a version 2 state was returned in which a "Key Slot N: ENABLED" line met
\* after "Keyslots:" gave a bare entry without any tool being run, next to a
\* slot whose legacy policy was loaded before "Keyslots:"
LegacyLineAfterKeyslots ==
    /\ pc = "ret"
    /\ returned.version = 2
    /\ \E k \in 1..Len(matches) :
          /\ matches[k].ver = 2
          /\ matches[k].legacy
          /\ EntryOf(returned, matches[k].slot) = [Index |-> [v |-> matches[k].slot]]
    /\ \E s \in Indices(returned) : LegacyIsSource(s)
    /\ Cardinality(LuksmetaCalls) = 1

\* C13: during a scan the two section flags are never both set; a line that
\* starts with neither space nor tab leaves each flag set exactly if the line is
\* that flag's own header ("Keyslots:" or "Tokens:"), so both are cleared by
\* every other such line; an indented line changes neither; a flag becomes
\* set only at its own header.
SectionFlagsExclusive ==
    /\ [](~(in_luks2_slot_section /\ in_luks2_token_section))
    /\ [][ (pc = "scan" /\ dump # <<>> /\ dump' = Tail(dump)) =>
              LET line == Head(dump) IN
              /\ ~line.indent =>
                    /\ in_luks2_slot_section' <=> (line = Text("Keyslots:"))
                    /\ in_luks2_token_section' <=> (line = Text("Tokens:"))
              /\ line.indent =>
                    UNCHANGED <<in_luks2_slot_section, in_luks2_token_section>>
              /\ (in_luks2_slot_section' /\ ~in_luks2_slot_section) =>
                    line = Text("Keyslots:")
              /\ (in_luks2_token_section' /\ ~in_luks2_token_section) =>
                    line = Text("Tokens:")
         ]_vars
    /\ [][ pc # "scan" =>
              (~in_luks2_slot_section' /\ ~in_luks2_token_section')
              \/ UNCHANGED <<in_luks2_slot_section, in_luks2_token_section>> ]_vars

\* the scan is inside the token listing of a dump whose "Keyslots:" line it
\* has passed
TokenSectionAfterSlotSection ==
    /\ pc = "scan"
    /\ scanned
    /\ version = 2
    /\ in_luks2_token_section
    /\ ~in_luks2_slot_section

\* C14: reading an event line that does not contain the resolved path leaves
\* the monitor watching with no rebuild started: no tool is run, nothing is
\* written and old_infos is unchanged; info(dev) is entered from watching
\* only by reading a line that contains the path, and whenever a rebuild is
\* under way in watching the line last read contains the path.
ForeignEventDiscarded ==
    /\ [][ /\ (pc = "watching" /\ nread' = nread + 1 /\ ~Contains(Head(stream), path)) =>
                /\ pc' = "watching"
                /\ stream' = Tail(stream)
                /\ UNCHANGED <<phase, out, old_infos, calls, returned, slots, dump>>
           /\ (pc = "watching" /\ pc' # "watching") =>
                /\ pc' = "info"
                /\ stream # <<>>
                /\ Contains(Head(stream), path)
                /\ evline' = Head(stream)
                /\ nread' = nread + 1
         ]_vars
    /\ []((phase = "watching" /\ pc \in {"info", "scan", "ret"}) => Contains(evline, path))

\* an event for another device has been read and dropped: only the startup
\* line is out and the monitor waits for the next line
ForeignEventRead ==
    /\ pc = "watching"
    /\ evline = "UDEV  [1.0] change   /devices/pci0000:00/block/sdb (block)"
    /\ nread = 1
    /\ Len(out) = 1
    /\ old_infos = LastEmitted

\* C15: the slots list info() returns has pairwise distinct indices, in the
\* order in which each index was first stored during the scan (by a keyslot
\* line or by a token); a token that stores an index already present keeps
\* the entry's place.
SlotsInFirstCreationOrder ==
    pc = "ret" =>
        /\ [k \in 1..Len(returned.slots) |-> returned.slots[k].Index.v] = created
        /\ \A j, k \in 1..Len(returned.slots) :
              j # k => returned.slots[j].Index.v # returned.slots[k].Index.v

\* a token stored slots 0 and 9, a later token stored slot 0 again with
\* another policy, and slot 0 is still returned first
TokenOverwriteKeepsPlace ==
    /\ pc = "ret"
    /\ Len(returned.slots) = 2
    /\ returned.slots[1].Index.v = 0
    /\ returned.slots[2].Index.v = 9
    /\ \E i, j \in 1..Len(calls) :
          /\ i < j
          /\ IsAppliedToken(calls[i]) /\ ListsSlot(calls[i], 0) /\ ListsSlot(calls[i], 9)
          /\ IsAppliedToken(calls[j]) /\ ListsSlot(calls[j], 0)
    /\ returned.slots[1].ClevisConfig # returned.slots[2].ClevisConfig

\* C16: from the end of priming on, old_infos is the state of the line written
\* last; a step changes old_infos exactly if it writes a line; a rebuild equal
\* to old_infos and the read of a line without the path leave it as it is.
SnapshotIsLastEmitted ==
    /\ [](phase = "watching" => old_infos = LastEmitted)
    /\ [][ phase = "watching" =>
              /\ (old_infos' # old_infos) <=> (out' # out)
              /\ (pc = "ret" /\ returned = old_infos) => old_infos' = old_infos
              /\ (pc = "watching" /\ stream # <<>> /\ ~Contains(Head(stream), path)) =>
                    old_infos' = old_infos
         ]_vars

\* a rebuild has written a second line and become the snapshot, and an event
\* for another device read after it has left the snapshot alone
SnapshotReplacedThenKept ==
    /\ pc = "watching"
    /\ Len(out) = 2
    /\ old_infos = LastEmitted
    /\ old_infos # out[1].of
    /\ nread = 2
    /\ evline = "UDEV  [1.0] change   /devices/pci0000:00/block/sdb (block)"

\* the n-th line udev delivered is still waiting in the stream and contains the path
MatchingEventPending(n) ==
    /\ nread < n
    /\ n - nread <= Len(stream)
    /\ Contains(stream[n - nread], path)

\* C17: with every tool terminating and the process scheduled, every matching
\* event delivered on the stream is eventually read and followed by a rebuild
\* that runs to its end (the monitor is back in watching with the event
\* consumed); lines are read in arrival order, one at a time, and only when
\* no rebuild is under way.
EveryMatchingEventRebuilt ==
    /\ \A n \in 1..MaxEvents :
          MatchingEventPending(n) ~> (nread >= n /\ pc = "watching")
    /\ [][ (nread' # nread) =>
              /\ pc = "watching"
              /\ nread' = nread + 1
              /\ evline' = Head(stream)
              /\ stream' = Tail(stream)
         ]_vars
    /\ []((pc \in {"info", "scan", "ret"} /\ phase = "watching") => Contains(evline, path))

\* C18: for a text of any length n the number of '=' that b64_decode appends
\* is in 0..3, the padded length is a multiple of 4, and a text whose length
\* is already a multiple of 4 gets none.
PaddingCompletesQuantum ==
    pc = "padded" =>
        /\ decoded.missing_padding \in 0..3
        /\ decoded.len = header.len + decoded.missing_padding
        /\ decoded.len % 4 = 0
        /\ (header.len % 4 = 0 => decoded.missing_padding = 0)
        /\ \A p \in 0..(decoded.missing_padding - 1) : (header.len + p) % 4 # 0

\* a text of 8 characters was left as it is and one of 5 characters would
\* get three '='
AlignedTextUnpadded ==
    /\ pc = "padded"
    /\ header.len = 8
    /\ decoded = [missing_padding |-> 0, len |-> 8]
    /\ PadLen(5) = 3

\* C19: the event stream is open whenever the initial info(dev) runs, no line
\* is taken from it or lost while priming, so every line delivered from the
\* start of the initial build on is in the stream when watching begins; and
\* every such line that contains the path is read later, whether it was
\* delivered during the initial build or after it.
NoEventMissedSinceStart ==
    /\ []((phase = "priming" /\ pc \in {"info", "scan", "ret"}) => monOpen)
    /\ [][ phase = "priming" =>
              /\ nread' = nread
              /\ stream' = stream \/ (Len(stream') = Len(stream) + 1 /\ SubSeq(stream', 1, Len(stream)) = stream)
         ]_vars
    /\ \A n \in 1..MaxEvents :
          MatchingEventPending(n) ~> (nread >= n /\ phase = "watching")

\* the scan step under way applies a token that lists slot s
StepAppliesTokenFor(s) ==
    /\ Len(calls') = Len(calls) + 1
    /\ IsAppliedToken(calls'[Len(calls')])
    /\ ListsSlot(calls'[Len(calls')], s)

\* C20: no step of the scan removes an index from slots, and a step changes
\* the entry of an index already present only by applying a token that lists
\* it: a keyslot line for an index already present stores nothing, so a
\* policy a token has attached is never removed or replaced by a later
\* keyslot line.
KeyslotLineNeverOverwrites ==
    [][ pc = "scan" =>
           \A k \in 1..Len(slots) :
              /\ Len(slots') >= k
              /\ slots'[k][1] = slots[k][1]
              /\ (slots'[k][2] # slots[k][2]) => StepAppliesTokenFor(slots[k][1])
      ]_vars

\* a token attached a policy to a slot, and a later "Key Slot N: ENABLED" line
\* for the same slot, for which luksmeta delivered another policy, has left
\* the token's entry in place
TokenPolicySurvivesKeyslotLine ==
    /\ pc = "ret"
    /\ \E i, j \in 1..Len(calls) :
          /\ i < j
          /\ IsAppliedToken(calls[i])
          /\ calls[j].tool = "luksmeta"
          /\ calls[j].res.rc = 0
          /\ ListsSlot(calls[i], int(calls[j].arg))
          /\ LET s == int(calls[j].arg) IN
             /\ LastTokenFor(s) = i
             /\ \E m \in 1..Len(matches) :
                   /\ matches[m].slot = s
                   /\ "ClevisConfig" \in DOMAIN matches[m].entry
                   /\ matches[m].entry # EntryOf(returned, s)
             /\ EntryOf(returned, s).ClevisConfig.v =
                   json_dumps(get_clevis_config_from_protected_header(
                       TokenObject(calls[i])["jwe"]["protected"]))

====
